---- MODULE Spec2Model ----
(***************************************************************************)
(* Model of langmem's short-term memory compaction:                        *)
(* src/src/langmem/short_term/summarization.py, summarize_messages.        *)
(*                                                                         *)
(* A caller owns an append-only conversation and the last SummaryInfo it   *)
(* was handed.  Each call of summarize_messages is one atomic step: the    *)
(* function is synchronous and single-threaded.  The summarizer model is   *)
(* external: its answer is drawn from Summaries, or it raises.             *)
(***************************************************************************)
EXTENDS Integers, Sequences, FiniteSets, TLC

\* ------------------------------------------------------------------ bounds
\* Most messages that are appended after the optional system message.
MaxMsgs == 3
\* Largest max_tokens / max_summary_tokens a caller configures.
MaxBudget == 3

\* Most non-system messages of an input of a single call.
MaxInput == 2

\* Most non-system messages of a conversation the node runs on.
MaxNodeMsgs == 2

\* Most messages of a conversation two callers run the node on.
MaxConcMsgs == 3

\* Token costs of the messages a caller appends, and of its system message.
TokenCosts == {0, 1, 3}
SystemCosts == {1, 2}

\* Texts the summarizer model may answer with.
Summaries == {"s1", "s2"}
\* The model call raising instead of answering.
ModelError == "ModelError"

\* ---------------------------------------------------------------- messages
\* A langchain message: id, type, tool_calls (pending tool invocations of an
\* AIMessage) and content.  Content is a sequence of words.
Words(k) == [i \in 1..k |-> "w"]

Message(id, type, tool_calls, content) ==
    [id |-> id, type |-> type, tool_calls |-> tool_calls, content |-> content]

\* What a caller may append: HumanMessage, AIMessage without and with tool
\* calls.  (A ToolMessage takes every branch of summarize_messages that an
\* AIMessage without tool calls takes.)
Kinds == { <<"human", FALSE>>, <<"ai", FALSE>>, <<"ai", TRUE>> }

\* isinstance(m, SystemMessage)
IsSystemMessage(m) == m.type = "system"

\* The token counter handed to summarize_messages: it counts words.
RECURSIVE token_counter(_)
token_counter(msgs) ==
    IF msgs = <<>> THEN 0
    ELSE Len(Head(msgs).content) + token_counter(Tail(msgs))

\* messages[a:b] of Python, a and b 0-based and non-negative.
PySlice(s, a, b) ==
    LET hi == IF b < Len(s) THEN b ELSE Len(s)
    IN  IF a >= hi THEN <<>> ELSE SubSeq(s, a + 1, hi)

\* ------------------------------------------------------------- SummaryInfo
\* SummaryInfo | None.  present = FALSE stands for None.
NoSummaryInfo ==
    [present |-> FALSE, summary |-> "", summarized_message_ids |-> <<>>,
     total_summarized_messages |-> 0]

SummaryInfo(summary, ids, total) ==
    [present |-> TRUE, summary |-> summary, summarized_message_ids |-> ids,
     total_summarized_messages |-> total]

\* ----------------------------------------------------------------- prompts
\* DEFAULT_INITIAL_SUMMARY_PROMPT: the messages, then the instruction.
initial_summary_prompt(messages) ==
    messages \o << Message(0, "human", FALSE,
                           <<"Create a summary of the conversation above:">>) >>

\* DEFAULT_EXISTING_SUMMARY_PROMPT: the messages, then the instruction
\* quoting the existing summary.
existing_summary_prompt(messages, existing_summary) ==
    messages \o << Message(0, "human", FALSE,
                           << "This is summary of the conversation to date: ",
                              existing_summary,
                              "Extend the summary by taking into account the new messages above:" >>) >>

\* final_prompt as it would be without its system_message placeholder.
final_prompt_NoSystem(system_message, summary, messages) ==
    << Message(0, "system", FALSE,
               <<"Summary of conversation earlier: ", summary>>) >>
      \o messages

\* DEFAULT_FINAL_SUMMARY_PROMPT: system message if any, the summary as a
\* system message, the remaining messages.
final_prompt(system_message, summary, messages) ==
    system_message
      \o << Message(0, "system", FALSE,
                    <<"Summary of conversation earlier: ", summary>>) >>
      \o messages

\* ------------------------------------------------------ summarize_messages
\* The configuration check with > for >=.
InvalidConfig_Strict(max_summary_tokens, max_tokens) ==
    max_summary_tokens > max_tokens

\* line 103: the configuration check.
InvalidConfig(max_summary_tokens, max_tokens) == max_summary_tokens >= max_tokens

\* line 107: the input begins with a system message.
HasSystemMessage(messages) ==
    messages # <<>> /\ IsSystemMessage(Head(messages))

\* The budget, were the system message not taken off it.
EffectiveMaxTokens_NoDeduction(messages, max_tokens) == max_tokens

\* line 112: the budget left after the system message.
EffectiveMaxTokens(messages, max_tokens) ==
    IF HasSystemMessage(messages)
    THEN max_tokens - token_counter(<<Head(messages)>>)
    ELSE max_tokens

\* line 110: the messages without the system message.
WorkingMessages(messages) ==
    IF HasSystemMessage(messages) THEN Tail(messages) ELSE messages

\* line 133: where the cutoff starts (0-based).
InitialIdx(total_summarized_messages) ==
    IF total_summarized_messages - 1 > 0 THEN total_summarized_messages - 1 ELSE 0

\* line 138
MaxTotalTokens(max_tokens, max_summary_tokens) ==
    max_tokens * 2 - max_summary_tokens

\* Within max_tokens, with < for <=.
WithinMaxTokens_Strict(n_tokens, max_tokens) == n_tokens < max_tokens

\* line 143: still within max_tokens.
WithinMaxTokens(n_tokens, max_tokens) == n_tokens <= max_tokens

\* The check of the absolute maximum, were it left out.
ReachedMaxTotal_Never(n_tokens, max_total_tokens) == FALSE

\* The absolute maximum with > for >=.
ReachedMaxTotal_Strict(n_tokens, max_total_tokens) == n_tokens > max_total_tokens

\* line 147: the absolute maximum is reached.
ReachedMaxTotal(n_tokens, max_total_tokens) == n_tokens >= max_total_tokens

\* lines 139-151: the scan, from 0-based position i on.  Yields the running
\* total, the cutoff, whether the ValueError was raised, and how many times
\* the token counter was called.
RECURSIVE Scan(_, _, _, _, _, _, _)
Scan(messages, i, n_tokens, idx, counted, max_tokens, max_total_tokens) ==
    IF i >= Len(messages)
    THEN [n_tokens |-> n_tokens, idx |-> idx, raised |-> FALSE, counted |-> counted]
    ELSE LET n   == n_tokens + token_counter(<<messages[i + 1]>>)
             idx2 == IF WithinMaxTokens(n, max_tokens) THEN i ELSE idx
         IN  IF ReachedMaxTotal(n, max_total_tokens)
             THEN [n_tokens |-> n, idx |-> idx2, raised |-> TRUE,
                   counted |-> counted + 1]
             ELSE Scan(messages, i + 1, n, idx2, counted + 1,
                       max_tokens, max_total_tokens)

\* The trim condition without its HumanMessage case.
MustDropLast_NoHuman(m) == m.type = "ai" /\ m.tool_calls

\* lines 166-170: the last message must be dropped from the slice.
MustDropLast(m) ==
    (m.type = "ai" /\ m.tool_calls) \/ m.type = "human"

\* lines 165-172: pop from the end while the last message must be dropped.
RECURSIVE Trim(_)
Trim(messages_to_summarize) ==
    IF messages_to_summarize # <<>>
       /\ MustDropLast(messages_to_summarize[Len(messages_to_summarize)])
    THEN Trim(SubSeq(messages_to_summarize, 1, Len(messages_to_summarize) - 1))
    ELSE messages_to_summarize

\* The candidate slice taken from the start of the conversation instead of
\* from total_summarized_messages.
Candidate_FromStart(messages, total_summarized_messages, n_tokens, idx, max_tokens) ==
    IF WithinMaxTokens(n_tokens, max_tokens)
    THEN <<>>
    ELSE PySlice(messages, 0, idx + 1)

\* The candidate slice taken from one message before
\* total_summarized_messages.
Candidate_OneBefore(messages, total_summarized_messages, n_tokens, idx, max_tokens) ==
    IF WithinMaxTokens(n_tokens, max_tokens)
    THEN <<>>
    ELSE PySlice(messages, InitialIdx(total_summarized_messages), idx + 1)

\* lines 155-158: the candidate slice, empty when nothing is to be summarized.
Candidate(messages, total_summarized_messages, n_tokens, idx, max_tokens) ==
    IF WithinMaxTokens(n_tokens, max_tokens)
    THEN <<>>
    ELSE PySlice(messages, total_summarized_messages, idx + 1)

\* The prompt sent to the model, were the first-summary template used
\* whether or not there is an existing summary.
SummaryPrompt_AlwaysInitial(existing_summary_info, messages_to_summarize) ==
    initial_summary_prompt(messages_to_summarize)

\* lines 175-189: the prompt sent to the model.
SummaryPrompt(existing_summary_info, messages_to_summarize) ==
    IF existing_summary_info.present
    THEN existing_summary_prompt(messages_to_summarize, existing_summary_info.summary)
    ELSE initial_summary_prompt(messages_to_summarize)

\* line 195
MessageIds(messages) == [k \in 1..Len(messages) |-> messages[k].id]

\* The SummaryInfo made after the model answered, were its count that of the
\* last slice alone.
NewSummaryInfo_CountsSlice(response, messages_to_summarize, total_summarized_messages) ==
    SummaryInfo(response, MessageIds(messages_to_summarize),
                Len(messages_to_summarize))

\* lines 192-197: the SummaryInfo made after the model answered.
NewSummaryInfo(response, messages_to_summarize, total_summarized_messages) ==
    SummaryInfo(response, MessageIds(messages_to_summarize),
                total_summarized_messages + Len(messages_to_summarize))

\* The SummaryInfo the call ends with, were the one passed in not carried
\* over when nothing is summarized.
ResultSummaryInfo_Forgets(existing_summary_info, response, messages_to_summarize, total_summarized_messages) ==
    IF messages_to_summarize # <<>>
    THEN NewSummaryInfo(response, messages_to_summarize, total_summarized_messages)
    ELSE NoSummaryInfo

\* lines 126, 174, 193: the SummaryInfo the call ends with: a new one if
\* there is something to summarize, else the one passed in.
ResultSummaryInfo(existing_summary_info, response, messages_to_summarize, total_summarized_messages) ==
    IF messages_to_summarize # <<>>
    THEN NewSummaryInfo(response, messages_to_summarize, total_summarized_messages)
    ELSE existing_summary_info

\* The model invoked once per message of the slice.
ModelInvocations_PerMessage(messages_to_summarize) == Len(messages_to_summarize)

\* How often the model is invoked for a slice (line 174, line 191).
ModelInvocations(messages_to_summarize) ==
    IF messages_to_summarize # <<>> THEN 1 ELSE 0

\* The messages returned, were the summarized messages not cut off.
Assemble_AllMessages(system_message, summary_info, messages) ==
    IF summary_info.present
    THEN final_prompt(system_message, summary_info.summary, messages)
    ELSE system_message \o messages

\* The messages returned, were the system message left out when there is no
\* summary.
Assemble_DropsSystem(system_message, summary_info, messages) ==
    IF summary_info.present
    THEN final_prompt(system_message, summary_info.summary,
                      PySlice(messages, summary_info.total_summarized_messages,
                              Len(messages)))
    ELSE messages

\* The messages returned, were the rest to start one message before
\* total_summarized_messages.
Assemble_FromOneBefore(system_message, summary_info, messages) ==
    IF summary_info.present
    THEN final_prompt(system_message, summary_info.summary,
                      PySlice(messages,
                              InitialIdx(summary_info.total_summarized_messages),
                              Len(messages)))
    ELSE system_message \o messages

\* lines 199-225: the messages returned.
Assemble(system_message, summary_info, messages) ==
    IF summary_info.present
    THEN final_prompt(system_message, summary_info.summary,
                      PySlice(messages, summary_info.total_summarized_messages,
                              Len(messages)))
    ELSE system_message \o messages

\* The caller's list, were the slice of line 158 a view of it: the pops of
\* line 172 would take its last messages away.
CallerListAfter_Aliased(input, popped) == SubSeq(input, 1, Len(input) - popped)

\* lines 110, 158, 172: messages[1:] and messages[a:b] make new lists, and
\* pop() acts on the new list; the caller's list keeps its elements.
CallerListAfter(input, popped) == input

\* The outcome of one call.  kind: "ok", or the error raised; input_after:
\* the caller's list when the call ends; messages and
\* summary_info: the SummarizationResult; model_calls and counter_calls: how
\* often the model and the token counter were called; candidate: the slice
\* of line 158; sent: the slice handed to the prompt; prompt: what the model
\* was invoked on; response: what the model did ("" if it was not invoked).
Outcome(kind, input, prior, max_tokens, max_summary_tokens, out, info, model_calls, counter_calls, candidate, sent, prompt, response) ==
    [kind |-> kind, input |-> input, prior |-> prior,
     input_after |-> CallerListAfter(input, Len(candidate) - Len(sent)),
     max_tokens |-> max_tokens, max_summary_tokens |-> max_summary_tokens,
     messages |-> out, summary_info |-> info,
     model_calls |-> model_calls, counter_calls |-> counter_calls,
     candidate |-> candidate, sent |-> sent, prompt |-> prompt,
     response |-> response]

\* No call has been made on the conversation as it stands.
NoCall ==
    Outcome("none", <<>>, NoSummaryInfo, 0, 0, <<>>, NoSummaryInfo, 0, 0,
            <<>>, <<>>, <<>>, "")

\* The messages returned for an empty input, without the system message.
EmptyInputMessages_NoSystem(system_message, messages) == messages

\* lines 119-123: the messages returned when no message is left after the
\* system message.
EmptyInputMessages(system_message, messages) == system_message \o messages

\* lines 60-225.  response is what the model does if it is invoked.
summarize_messages(input, existing_summary_info, max_tokens0, max_summary_tokens, response) ==
    IF InvalidConfig(max_summary_tokens, max_tokens0)
    THEN Outcome("InvalidConfiguration", input, existing_summary_info, max_tokens0,
                 max_summary_tokens, <<>>, NoSummaryInfo, 0, 0, <<>>, <<>>, <<>>, "")
    ELSE
    LET system_message == IF HasSystemMessage(input) THEN <<Head(input)>> ELSE <<>>
        messages   == WorkingMessages(input)
        max_tokens == EffectiveMaxTokens(input, max_tokens0)
        sys_calls  == Len(system_message)
    IN  IF messages = <<>>
        THEN Outcome("ok", input, existing_summary_info, max_tokens0,
                     max_summary_tokens,
                     EmptyInputMessages(system_message, messages),
                     existing_summary_info, 0, sys_calls, <<>>, <<>>, <<>>, "")
        ELSE
        LET total == existing_summary_info.total_summarized_messages
            scan  == Scan(messages, total, 0, InitialIdx(total), 0, max_tokens,
                          MaxTotalTokens(max_tokens, max_summary_tokens))
            calls == sys_calls + scan.counted
        IN  IF scan.raised
            THEN Outcome("BudgetExceeded", input, existing_summary_info,
                         max_tokens0, max_summary_tokens, <<>>, NoSummaryInfo,
                         0, calls, <<>>, <<>>, <<>>, "")
            ELSE
            LET candidate == Candidate(messages, total, scan.n_tokens, scan.idx,
                                       max_tokens)
                messages_to_summarize == Trim(candidate)
                invoked == ModelInvocations(messages_to_summarize)
                prompt  == IF invoked > 0
                           THEN SummaryPrompt(existing_summary_info,
                                              messages_to_summarize)
                           ELSE <<>>
            IN  IF invoked > 0 /\ response = ModelError
                THEN Outcome("ModelError", input, existing_summary_info,
                             max_tokens0, max_summary_tokens, <<>>,
                             NoSummaryInfo, invoked, calls, candidate,
                             messages_to_summarize, prompt, response)
                ELSE
                LET summary_info ==
                        ResultSummaryInfo(existing_summary_info, response,
                                          messages_to_summarize, total)
                IN  Outcome("ok", input, existing_summary_info, max_tokens0,
                            max_summary_tokens,
                            Assemble(system_message, summary_info, messages),
                            summary_info, invoked, calls, candidate,
                            messages_to_summarize, prompt,
                            IF invoked > 0 THEN response ELSE "")

\* -------------------------------------------------------- SummarizationNode
\* A context dict: the keys it holds, and their values.  user_id stands for
\* any key other than summary_info.
Context(keys, user_id, summary_info) ==
    [keys |-> keys, user_id |-> user_id, summary_info |-> summary_info]

\* {}
EmptyContext == Context({}, "", NoSummaryInfo)

\* line 269: context.get("summary_info")
ContextSummaryInfo(context) ==
    IF "summary_info" \in context.keys THEN context.summary_info ELSE NoSummaryInfo

\* The merge, were it to build the context anew from summary_info alone.
MergeSummaryInfo_Replace(context, summary_info) ==
    Context({"summary_info"}, "", summary_info)

\* lines 281-284: {**context, "summary_info": summary_info}
MergeSummaryInfo(context, summary_info) ==
    Context(context.keys \cup {"summary_info"}, context.user_id, summary_info)

\* The input of the node: a dict that may lack "messages" and "context".
NodeInput(has_messages, messages, has_context, context) ==
    [has_messages |-> has_messages, messages |-> messages,
     has_context |-> has_context, context |-> context]

\* lines 279-285: the state update the node returns: the keys it holds, and
\* their values.
StateUpdate(summarization_result, context) ==
    IF summarization_result.summary_info.present
    THEN [keys |-> {"messages", "context"},
          messages |-> summarization_result.messages,
          context |-> MergeSummaryInfo(context, summarization_result.summary_info)]
    ELSE [keys |-> {"messages"},
          messages |-> summarization_result.messages,
          context |-> EmptyContext]

NoStateUpdate == [keys |-> {}, messages |-> <<>>, context |-> EmptyContext]

\* The missing-field check, were it left out.
MessagesMissing_Unchecked(input) == FALSE

\* line 264: messages is None.
MessagesMissing(input) == ~input.has_messages

\* The outcome of one call of the node: kind, its input, the
\* summarize_messages outcome (NoCall if it was not called), the update.
NodeOutcome(kind, input, inner, update) ==
    [kind |-> kind, input |-> input, inner |-> inner, update |-> update]

NoNodeCall == NodeOutcome("none", NodeInput(FALSE, <<>>, FALSE, EmptyContext), NoCall, NoStateUpdate)

\* lines 254-285: SummarizationNode._func on a dict.
NodeFunc(input, max_tokens, max_summary_tokens, response) ==
    LET messages == IF input.has_messages THEN input.messages ELSE <<>>
        context  == IF input.has_context THEN input.context ELSE EmptyContext
    IN  IF MessagesMissing(input)
        THEN NodeOutcome("MissingField", input, NoCall, NoStateUpdate)
        ELSE LET summarization_result ==
                     summarize_messages(messages, ContextSummaryInfo(context),
                                        max_tokens, max_summary_tokens, response)
             IN  IF summarization_result.kind # "ok"
                 THEN NodeOutcome(summarization_result.kind, input,
                                  summarization_result, NoStateUpdate)
                 ELSE NodeOutcome("ok", input, summarization_result,
                                  StateUpdate(summarization_result, context))

\* ------------------------------------------------------------------- state
VARIABLES
    conv,         \* the caller's conversation, oldest first
    cfg,          \* [max_tokens, max_summary_tokens] the caller configured
    stored,       \* the SummaryInfo the caller holds (None at first)
    result,       \* the outcome of the last call on conv as it stands
    summarized,   \* ids of the messages folded into a summary so far
    context,      \* the context dict of the graph state the node runs on
    node,         \* the outcome of the last call of the node
    calls         \* per caller of the node: where it is, and what it read

vars == <<conv, cfg, stored, result, summarized, context, node, calls>>

\* The callers that may run the node on one conversation at a time.
Callers == {"a", "b"}

\* A caller at rest.  pc: "idle" or "read"; input: the dict it read;
\* replaced: the context that was stored when it wrote; wrote: whether its
\* last call stored a context.
NoInvocation ==
    [pc |-> "idle", input |-> NodeInput(FALSE, <<>>, FALSE, EmptyContext),
     replaced |-> EmptyContext, wrote |-> FALSE]

NoInvocations == [p \in Callers |-> NoInvocation]

Configs ==
    [max_tokens : 1..MaxBudget, max_summary_tokens : 0..MaxBudget]

\* After construction: an empty conversation or one holding only a system
\* message, no SummaryInfo.
Init ==
    /\ cfg \in Configs
    /\ conv \in {<<>>} \cup
                { << Message(1, "system", FALSE, Words(k)) >> : k \in SystemCosts }
    /\ stored = NoSummaryInfo
    /\ result = NoCall
    /\ summarized = {}
    /\ context = EmptyContext
    /\ node = NoNodeCall
    /\ calls = NoInvocations

\* lines 191-197: the SummaryInfo the caller holds, were the one passed in
\* updated in place before the model is invoked.
StoredAfter_InPlace(outcome, held) ==
    IF outcome.kind = "ok" THEN outcome.summary_info
    ELSE IF outcome.kind = "ModelError"
    THEN [held EXCEPT !.total_summarized_messages = @ + Len(outcome.sent)]
    ELSE held

\* The SummaryInfo the caller holds, were a call that raises for the
\* absolute maximum to count the messages it scanned as summarized.
StoredAfter_AdvancesOnError(outcome, held) ==
    IF outcome.kind = "ok" THEN outcome.summary_info
    ELSE IF outcome.kind = "BudgetExceeded"
    THEN SummaryInfo(held.summary, held.summarized_message_ids,
                     Len(WorkingMessages(outcome.input)))
    ELSE held

\* lines 191-197: the SummaryInfo the caller holds after a call.  The call
\* builds a new SummaryInfo after the model answered and never writes to the
\* one passed in; a call that raises hands nothing back.
StoredAfter(outcome, held) ==
    IF outcome.kind = "ok" THEN outcome.summary_info ELSE held

NonSystemCount(messages) == Len(WorkingMessages(messages))

\* The caller appends one message to the conversation.
AppendMessage ==
    /\ NonSystemCount(conv) < MaxMsgs
    /\ \E kind \in Kinds, k \in TokenCosts :
         conv' = Append(conv, Message(Len(conv) + 1, kind[1], kind[2], Words(k)))
    /\ result' = NoCall
    /\ node' = NoNodeCall
    /\ UNCHANGED <<cfg, stored, summarized, context, calls>>

\* The caller calls summarize_messages with the SummaryInfo it holds and
\* keeps the SummaryInfo returned.  A call that raises returns nothing.
Call ==
    /\ \E response \in Summaries \cup {ModelError} :
         result' = summarize_messages(conv, stored, cfg.max_tokens,
                                      cfg.max_summary_tokens, response)
    /\ stored' = StoredAfter(result', stored)
    /\ summarized' = IF result'.kind = "ok"
                     THEN summarized \cup { result'.sent[k].id :
                                              k \in 1..Len(result'.sent) }
                     ELSE summarized
    /\ conv' = result'.input_after
    /\ UNCHANGED <<cfg, context, node, calls>>

Next == AppendMessage \/ Call

Spec == Init /\ [][Next]_vars

\* ------------------------------------------------------------- single calls
\* summarize_messages called once, on any input with any SummaryInfo, as a
\* caller that keeps its state elsewhere may call it.

\* The lists of k non-system messages after the leading messages system_message.
InputsOfLen(system_message, k) ==
    { system_message \o
        [i \in 1..k |-> Message(Len(system_message) + i, f[i][1][1], f[i][1][2],
                                Words(f[i][2]))] :
      f \in [1..k -> Kinds \X TokenCosts] }

Inputs ==
    UNION { InputsOfLen(system_message, k) :
              system_message \in {<<>>} \cup
                  { << Message(1, "system", FALSE, Words(c)) >> : c \in SystemCosts },
              k \in 0..MaxInput }

\* existing_summary_info: None, or a SummaryInfo with any count.
ExistingSummaryInfos ==
    {NoSummaryInfo} \cup
    { SummaryInfo(summary, <<>>, total) :
        summary \in Summaries, total \in 0..(MaxInput + 1) }

FnInit ==
    /\ cfg \in Configs
    /\ conv \in Inputs
    /\ stored \in ExistingSummaryInfos
    /\ result = NoCall
    /\ summarized = {}
    /\ context = EmptyContext
    /\ node = NoNodeCall
    /\ calls = NoInvocations

CallOnce ==
    /\ result = NoCall
    /\ \E response \in Summaries \cup {ModelError} :
         result' = summarize_messages(conv, stored, cfg.max_tokens,
                                      cfg.max_summary_tokens, response)
    /\ conv' = result'.input_after
    /\ UNCHANGED <<cfg, stored, summarized, context, node, calls>>

FnNext == CallOnce

FnSpec == FnInit /\ [][FnNext]_vars

\* ----------------------------------------------------------------- the node
\* A caller that keeps the messages and the context in a dict, appends
\* messages, calls the node on the dict and stores the context the node
\* returns.  The SummaryInfo travels in the context.

\* The context stored after an update, were an update without "context" to
\* clear it.
ContextAfter_Clears(update, current) ==
    IF "context" \in update.keys THEN update.context ELSE EmptyContext

\* lines 279-285: the context stored after an update: the update's context
\* as a whole if it has one, else the one that was there.
ContextAfter(update, current) ==
    IF "context" \in update.keys THEN update.context ELSE current

NodeInit ==
    /\ cfg \in Configs
    /\ conv \in {<<>>} \cup
                { << Message(1, "system", FALSE, Words(k)) >> : k \in SystemCosts }
    /\ context \in { EmptyContext, Context({"user_id"}, "u1", NoSummaryInfo) }
    /\ stored = NoSummaryInfo
    /\ result = NoCall
    /\ summarized = {}
    /\ node = NoNodeCall
    /\ calls = NoInvocations

NodeAppend ==
    /\ NonSystemCount(conv) < MaxNodeMsgs
    /\ \E kind \in Kinds, k \in TokenCosts :
         conv' = Append(conv, Message(Len(conv) + 1, kind[1], kind[2], Words(k)))
    /\ result' = NoCall
    /\ node' = NoNodeCall
    /\ UNCHANGED <<cfg, stored, summarized, context, calls>>

\* One call of the node.  The dict may lack "messages"; an empty context may
\* be a missing "context".  The caller stores the context of the update.
NodeInvoke ==
    /\ \E has_messages \in BOOLEAN,
          has_context \in (IF context = EmptyContext THEN BOOLEAN ELSE {TRUE}),
          response \in Summaries \cup {ModelError} :
         node' = NodeFunc(NodeInput(has_messages,
                                    IF has_messages THEN conv ELSE <<>>,
                                    has_context,
                                    IF has_context THEN context ELSE EmptyContext),
                          cfg.max_tokens, cfg.max_summary_tokens, response)
    /\ result' = node'.inner
    /\ context' = ContextAfter(node'.update, context)
    /\ conv' = IF node'.inner.kind = "none" THEN conv ELSE node'.inner.input_after
    /\ UNCHANGED <<cfg, stored, summarized, calls>>

NodeNext == NodeAppend \/ NodeInvoke

NodeSpec == NodeInit /\ [][NodeNext]_vars

\* -------------------------------------------------------------- two callers
\* Two callers run the node on the same conversation and context.  Each
\* reads the messages and the context, then runs the node on what it read
\* and stores the context of the update; steps of the two may interleave.

ConcInit ==
    /\ cfg \in Configs
    /\ conv = <<>>
    /\ context = EmptyContext
    /\ stored = NoSummaryInfo
    /\ result = NoCall
    /\ summarized = {}
    /\ node = NoNodeCall
    /\ calls = NoInvocations

ConcAppend ==
    /\ Len(conv) < MaxConcMsgs
    /\ \E k \in TokenCosts :
         conv' = Append(conv, Message(Len(conv) + 1, "ai", FALSE, Words(k)))
    /\ UNCHANGED <<cfg, stored, result, summarized, context, node, calls>>

\* lines 256-257: the caller hands the node the dict as it is now.
ReadState(p) ==
    /\ calls[p].pc = "idle"
    /\ calls' = [calls EXCEPT ![p] =
                   [pc |-> "read", input |-> NodeInput(TRUE, conv, TRUE, context),
                    replaced |-> EmptyContext, wrote |-> FALSE]]
    /\ UNCHANGED <<conv, cfg, stored, result, summarized, context, node>>

\* lines 267-285: the node runs on what the caller read, and the context of
\* its update replaces the stored one.  A call that raises stores nothing.
CompactAndWrite(p) ==
    /\ calls[p].pc = "read"
    /\ \E response \in Summaries \cup {ModelError} :
         LET outcome == NodeFunc(calls[p].input, cfg.max_tokens,
                                 cfg.max_summary_tokens, response)
         IN  /\ context' = ContextAfter(outcome.update, context)
             /\ calls' = [calls EXCEPT ![p] =
                            [pc |-> "idle", input |-> calls[p].input,
                             replaced |-> context,
                             wrote |-> "context" \in outcome.update.keys]]
    /\ UNCHANGED <<conv, cfg, stored, result, summarized, node>>

ConcNext ==
    \/ ConcAppend
    \/ \E p \in Callers : ReadState(p)
    \/ \E p \in Callers : CompactAndWrite(p)

ConcSpec == ConcInit /\ [][ConcNext]_vars


\* ------------------------------------------------------------------ claims
\* The reserved system message of an input, as a sequence of 0 or 1 messages.
ReservedSystem(input) == IF HasSystemMessage(input) THEN <<Head(input)>> ELSE <<>>

\* Whether the output of outcome r holds the synthetic summary message.
HasSyntheticSummary(r) ==
    r.summary_info.present /\ WorkingMessages(r.input) # <<>>

\* The conversation messages outcome r returns verbatim: its output without
\* the reserved system message and the synthetic summary message.
OutputTail(r) ==
    LET skip == Len(ReservedSystem(r.input))
                  + (IF HasSyntheticSummary(r) THEN 1 ELSE 0)
    IN  SubSeq(r.messages, skip + 1, Len(r.messages))

\* C1: Idempotence.  A call that follows a successful call, on the same
\* messages with the same parameters and the state that call returned,
\* succeeds with the same output messages and the same state, and does not
\* invoke the model.  (Stated for the calls in which the model, were it
\* invoked, answers.)
C1_Idempotence ==
    [][ (result.kind = "ok" /\ result'.kind \notin {"none", "ModelError"}) =>
          /\ result'.kind = "ok"
          /\ result'.model_calls = 0
          /\ result'.messages = result.messages
          /\ result'.summary_info = result.summary_info ]_vars

\* C2: Monotonicity.  In serialized calls on the append-only conversation,
\* each fed the state the previous one returned, the state a call returns
\* never has a smaller total_summarized_messages than the state passed in.
C2_Monotonicity ==
    [][ result'.kind = "ok" =>
          result'.summary_info.total_summarized_messages
            >= stored.total_summarized_messages ]_vars

\* C2 witness: a call that was passed a state compacted again.
C2_Witness ==
    /\ result.kind = "ok"
    /\ result.prior.present
    /\ result.model_calls = 1
    /\ result.summary_info.total_summarized_messages
         > result.prior.total_summarized_messages

\* C3: Safety trim.  Whenever the model is invoked, the slice handed to it is
\* not empty and its last message is neither a human message nor an AI
\* message with pending tool calls.
C3_SafetyTrim ==
    result.model_calls > 0 =>
      /\ result.sent # <<>>
      /\ LET last == result.sent[Len(result.sent)]
         IN  /\ last.type # "human"
             /\ ~(last.type = "ai" /\ last.tool_calls)

\* C3 witness: the model was invoked on a slice that the trim had shortened.
C3_Witness ==
    /\ result.model_calls > 0
    /\ Len(result.sent) < Len(result.candidate)

C5_ConfigValidation ==
    result.kind # "none" =>
      IF result.max_summary_tokens >= result.max_tokens
      THEN /\ result.kind = "InvalidConfiguration"
           /\ result.counter_calls = 0
           /\ result.model_calls = 0
      ELSE result.kind # "InvalidConfiguration"

\* C5 witness: InvalidConfiguration on max_summary_tokens = max_tokens, for a
\* conversation with a system message and further messages.
C5_Witness ==
    /\ result.kind = "InvalidConfiguration"
    /\ result.max_summary_tokens = result.max_tokens
    /\ HasSystemMessage(result.input)
    /\ Len(result.input) > 1

\* C6: System-message preservation.  If the input begins with a system
\* message, a successful call returns it unmodified as the first output
\* message, and it is never in the slice handed to the model.
C6_SystemPreserved ==
    HasSystemMessage(result.input) =>
      /\ result.kind = "ok" =>
           result.messages # <<>> /\ result.messages[1] = result.input[1]
      /\ \A k \in 1..Len(result.sent) : result.sent[k] # result.input[1]
      /\ \A k \in 1..Len(result.candidate) : result.candidate[k] # result.input[1]

\* C6 witness: a successful call that summarized, on an input with a system
\* message.
C6_Witness ==
    /\ result.kind = "ok"
    /\ HasSystemMessage(result.input)
    /\ result.model_calls = 1

\* C7: Output stays within budget.  The conversation messages a successful
\* call returns verbatim cost at most max_tokens (what is left of it after
\* the system message) in all.
C7_OutputWithinBudget ==
    (result.kind = "ok" /\ OutputTail(result) # <<>>) =>
      token_counter(OutputTail(result))
        <= EffectiveMaxTokens(result.input, result.max_tokens)

C9_Assembly ==
    (result.kind = "ok" /\ HasSyntheticSummary(result)) =>
      LET msgs == WorkingMessages(result.input)
          sys  == ReservedSystem(result.input)
          n    == Len(sys)
          t    == result.summary_info.total_summarized_messages
          rest == IF t < Len(msgs) THEN Len(msgs) - t ELSE 0
          out  == result.messages
      IN  /\ Len(out) = n + 1 + rest
          /\ SubSeq(out, 1, n) = sys
          /\ out[n + 1].type = "system"
          /\ out[n + 1].content
               = <<"Summary of conversation earlier: ", result.summary_info.summary>>
          /\ \A k \in 1..rest : out[n + 1 + k] = msgs[t + k]

\* C9 witness: a state passed through by a call that did not summarize, with
\* a system message and messages left after the summarized ones.
C9_Witness ==
    /\ result.kind = "ok"
    /\ HasSyntheticSummary(result)
    /\ result.model_calls = 0
    /\ HasSystemMessage(result.input)
    /\ result.summary_info.total_summarized_messages
         < Len(WorkingMessages(result.input))

\* C10: At most one model invocation.  A call invokes the model zero times
\* or once.
C10_AtMostOneModelCall == result.model_calls \in {0, 1}

\* C10 witness: one invocation for a slice of several messages.
C10_Witness ==
    /\ result.model_calls = 1
    /\ Len(result.sent) >= 2

\* C12: State update on compaction.  When a call invokes the model and the
\* model answers, the returned state has the model's response as summary,
\* the ids of exactly the slice sent to the model (not those of earlier
\* slices) as summarized_message_ids, and the prior count (0 without a prior
\* state) plus the length of that slice as total_summarized_messages.
C12_StateUpdate ==
    (result.kind = "ok" /\ result.model_calls > 0) =>
        /\ result.response \in Summaries
        /\ result.summary_info.present
        /\ result.summary_info.summary = result.response
        /\ result.summary_info.summarized_message_ids
             = [k \in 1..Len(result.sent) |-> result.sent[k].id]
        /\ result.summary_info.total_summarized_messages
             = result.prior.total_summarized_messages + Len(result.sent)

\* C12 witness: a compaction on top of a prior state that already holds the
\* ids and the count of an earlier slice.
C12_Witness ==
    /\ result.kind = "ok"
    /\ result.model_calls > 0
    /\ result.prior.present
    /\ result.prior.total_summarized_messages > 0
    /\ result.prior.summarized_message_ids # <<>>
    /\ result.sent # <<>>

\* C13: All-or-nothing on model failure.  A call in which the model fails
\* raises: it returns no messages and no state, it has invoked the model
\* exactly once (no retry), and the state the caller holds and the caller's
\* input messages are what they were before the call.
C13_AllOrNothing ==
    [][ result'.kind = "ModelError" =>
          /\ result'.model_calls = 1
          /\ result'.response = ModelError
          /\ result'.messages = <<>>
          /\ ~result'.summary_info.present
          /\ stored' = stored
          /\ conv' = conv
          /\ summarized' = summarized ]_vars

\* C13 witness: the model failed in a call made with a prior state.
C13_Witness ==
    /\ result.kind = "ModelError"
    /\ result.prior.present
    /\ result.sent # <<>>
    /\ stored = result.prior

\* C17: No-state output.  A call made without a prior state that does not
\* invoke the model returns no state, and returns the input messages element
\* for element, the leading system message included.
C17_NoStateOutput ==
    (result.kind = "ok" /\ ~result.prior.present /\ result.model_calls = 0) =>
        /\ ~result.summary_info.present
        /\ result.messages = result.input

\* C17 witness: such a call on a system message followed by other messages.
C17_Witness ==
    /\ result.kind = "ok"
    /\ ~result.prior.present
    /\ result.model_calls = 0
    /\ HasSystemMessage(result.input)
    /\ Len(result.input) >= 2

\* C18: Input immutability.  After every call, returning or raising, the
\* caller's list of messages is what it was before the call: neither the
\* system carve-out nor the trim of the slice takes an element from it.
C18_InputImmutability ==
    [][ result'.kind # "none" => conv' = conv ]_vars

\* C18 witness: a call that carved out the system message and trimmed the
\* slice, on a list that is still whole.
C18_Witness ==
    /\ result.kind \in {"ok", "ModelError"}
    /\ HasSystemMessage(result.input)
    /\ Len(result.sent) < Len(result.candidate)
    /\ conv = result.input

\* The scan and the candidate slice of outcome r, were both to start at the
\* 0-based position start of the non-system messages: the token counter is
\* called for every message from start on, the cutoff is the last position
\* from start on whose running total is within the effective max_tokens
\* (max(0, n - 1) if there is none), and the slice is empty if the total is
\* within it, else it runs from start to the cutoff inclusive.
StartsAt(r, start) ==
    LET msgs   == WorkingMessages(r.input)
        e      == EffectiveMaxTokens(r.input, r.max_tokens)
        Tot(i) == token_counter(PySlice(msgs, start, i + 1))
        within == { i \in start..(Len(msgs) - 1) : Tot(i) <= e }
        cutoff == IF within # {}
                  THEN CHOOSE i \in within : \A j \in within : j <= i
                  ELSE InitialIdx(r.prior.total_summarized_messages)
    IN  /\ r.counter_calls - Len(ReservedSystem(r.input)) = Len(msgs) - start
        /\ r.candidate = IF Tot(Len(msgs) - 1) <= e
                         THEN <<>>
                         ELSE PySlice(msgs, start, cutoff + 1)

\* C19 as stated: with a prior state of count n, the scan and the candidate
\* slice both start at position max(0, n - 1).
C19_ResumeOneBefore ==
    (result.kind \in {"ok", "ModelError"} /\ WorkingMessages(result.input) # <<>>) =>
        StartsAt(result, InitialIdx(result.prior.total_summarized_messages))

\* C19: Resume point.  With a prior state of count n, the scan and the
\* candidate slice both start at position n of the non-system messages, the
\* first message not summarized yet (position 0 without a prior state);
\* max(0, n - 1) is only the value the cutoff has when no scanned position
\* is within the effective max_tokens.  The candidate slice runs from
\* position n to the cutoff inclusive.
C19_ResumePoint ==
    (result.kind \in {"ok", "ModelError"} /\ WorkingMessages(result.input) # <<>>) =>
        StartsAt(result, result.prior.total_summarized_messages)

\* C19 witness: a candidate slice taken in a call with a prior state that
\* counts summarized messages.
C19_Witness ==
    /\ result.kind \in {"ok", "ModelError"}
    /\ result.prior.total_summarized_messages >= 1
    /\ result.candidate # <<>>

\* C20: Slice within the token limit.  Whenever the model is invoked, the
\* messages of the summarized slice cost no more than the effective
\* max_tokens together.
C20_SliceWithinLimit ==
    result.model_calls > 0 =>
        token_counter(result.sent)
          <= EffectiveMaxTokens(result.input, result.max_tokens)

\* The messages of outcome r that the prior state does not count as
\* summarized.
Unsummarized(r) ==
    PySlice(WorkingMessages(r.input), r.prior.total_summarized_messages,
            Len(WorkingMessages(r.input)))

\* Outcome r is that of a call with a valid configuration whose unsummarized
\* messages cost no more than the effective max_tokens.
NeedsNoCompaction(r) ==
    /\ r.kind # "none"
    /\ ~InvalidConfig(r.max_summary_tokens, r.max_tokens)
    /\ token_counter(Unsummarized(r)) <= EffectiveMaxTokens(r.input, r.max_tokens)

\* The output of outcome r is the reserved system message if any, the
\* synthetic summary message made of the prior summary, and the unsummarized
\* messages.
ReattachesPrior(r) ==
    r.messages =
        ReservedSystem(r.input)
          \o << Message(0, "system", FALSE,
                        <<"Summary of conversation earlier: ", r.prior.summary>>) >>
          \o Unsummarized(r)

CarriesMessages(n) ==
    /\ "messages" \in n.update.keys
    /\ n.update.messages = n.inner.messages

\* The update of node outcome n carries a context with the keys and the
\* user_id of the input context and, as summary_info, the SummaryInfo
\* summarize_messages returned.
CarriesMergedContext(n) ==
    LET given == IF n.input.has_context THEN n.input.context ELSE EmptyContext
    IN  /\ "context" \in n.update.keys
        /\ n.update.context.keys = given.keys \cup {"summary_info"}
        /\ n.update.context.user_id = given.user_id
        /\ n.update.context.summary_info = n.inner.summary_info

\* C14 as stated: the result of every call of the node that returns holds
\* the output messages and the merged context.
C14_AlwaysContext ==
    node.kind = "ok" => (CarriesMessages(node) /\ CarriesMergedContext(node))

\* C14: Adapter context merge.  The result of a call of the node that
\* returns holds the output messages.  If summarize_messages returned a
\* SummaryInfo, it also holds a context in which every key but summary_info
\* is as in the input context and summary_info is that SummaryInfo; if
\* summarize_messages returned none, it holds no context at all.
C14_ContextMerge ==
    node.kind = "ok" =>
        /\ CarriesMessages(node)
        /\ IF node.inner.summary_info.present
           THEN CarriesMergedContext(node)
           ELSE node.update.keys = {"messages"}

\* C14 witness: the node returned a SummaryInfo on an input context that
\* held another key and a SummaryInfo.
C14_Witness ==
    /\ node.kind = "ok"
    /\ node.input.has_context
    /\ node.input.context.keys = {"user_id", "summary_info"}
    /\ node.input.context.summary_info.present
    /\ node.inner.summary_info.present

\* C15: Adapter missing field.  A call of the node on an input without
\* messages raises the missing-field ValueError before summarize_messages is
\* called: no token is counted, the model is not invoked, no update is
\* returned and the context stays as it is.
C15_MissingField ==
    [][ (node'.kind # "none" /\ ~node'.input.has_messages) =>
          /\ node'.kind = "MissingField"
          /\ node'.inner = NoCall
          /\ node'.inner.counter_calls = 0
          /\ node'.inner.model_calls = 0
          /\ node'.update.keys = {}
          /\ context' = context ]_vars

\* C15 witness: the node raised on an input without messages, while the
\* caller holds messages and a context with a SummaryInfo.
C15_Witness ==
    /\ node.kind = "MissingField"
    /\ conv # <<>>
    /\ node.input.has_context
    /\ ContextSummaryInfo(context).present

\* The running total of the token costs of msgs from 0-based position n to
\* position i, both included.
RunningTotal(msgs, n, i) == token_counter(PySlice(msgs, n, i + 1))

\* Some running total of msgs from position n on reaches the ceiling.
ReachesCeiling(msgs, n, ceiling) ==
    \E i \in n..(Len(msgs) - 1) : RunningTotal(msgs, n, i) >= ceiling

\* The candidate slice of msgs from position n on under the threshold e:
\* none if the whole of it is within e, else up to the last position whose
\* running total is within e.
SliceUnder(msgs, n, e) ==
    LET within == { i \in n..(Len(msgs) - 1) : RunningTotal(msgs, n, i) <= e }
        cutoff == IF within # {}
                  THEN CHOOSE i \in within : \A j \in within : j <= i
                  ELSE IF n >= 1 THEN n - 1 ELSE 0
    IN  IF RunningTotal(msgs, n, Len(msgs) - 1) <= e
        THEN <<>>
        ELSE PySlice(msgs, n, cutoff + 1)

\* C21: System-message budget deduction.  On every call, the first and the
\* later ones, on an input that begins with a system message of cost s and
\* holds other messages, with the max_tokens the caller passes: the call
\* raises the ValueError of the absolute maximum exactly if a running total
\* reaches 2 * (max_tokens - s) - max_summary_tokens; otherwise the slice is
\* decided and cut off with the threshold max_tokens - s.  The SummaryInfo
\* returned holds no budget, and the caller's max_tokens stays what it was.
C21_SystemDeduction ==
    [][ (/\ result'.kind \in {"ok", "ModelError", "BudgetExceeded"}
         /\ HasSystemMessage(conv)
         /\ Len(conv) >= 2) =>
          LET s    == token_counter(<<Head(conv)>>)
              e    == cfg.max_tokens - s
              msgs == Tail(conv)
              n    == stored.total_summarized_messages
          IN  /\ result'.kind = "BudgetExceeded"
                   <=> ReachesCeiling(msgs, n, 2 * e - cfg.max_summary_tokens)
              /\ result'.kind # "BudgetExceeded"
                   => result'.candidate = SliceUnder(msgs, n, e)
              /\ DOMAIN result'.summary_info
                   = {"present", "summary", "summarized_message_ids",
                      "total_summarized_messages"}
              /\ cfg' = cfg ]_vars

\* C21 witness: a later call, with a prior state, that takes a slice of
\* messages which cost more than max_tokens - s but no more than max_tokens.
C21_Witness ==
    /\ result.kind = "ok"
    /\ HasSystemMessage(result.input)
    /\ result.prior.present
    /\ result.candidate # <<>>
    /\ token_counter(Unsummarized(result)) <= result.max_tokens

\* C22: Template selection.  When the model is invoked, the prompt is the
\* trimmed slice, in order, followed by one human message: with a prior
\* state the instruction to extend the summary, quoting the prior summary;
\* without one the instruction to create a summary.
C22_TemplateSelection ==
    result.model_calls > 0 =>
        LET k    == Len(result.sent)
            last == result.prompt[k + 1]
        IN  /\ Len(result.prompt) = k + 1
            /\ SubSeq(result.prompt, 1, k) = result.sent
            /\ last.type = "human"
            /\ last.content =
                 IF result.prior.present
                 THEN << "This is summary of the conversation to date: ",
                         result.prior.summary,
                         "Extend the summary by taking into account the new messages above:" >>
                 ELSE << "Create a summary of the conversation above:" >>

\* C22 witness: the model was invoked with a prior state whose summary is
\* not the one the model then gave.
C22_Witness ==
    /\ result.model_calls > 0
    /\ result.prior.present
    /\ Len(result.prompt) >= 2
    /\ result.response \in Summaries \ {result.prior.summary}

\* C23: Errors precede the model call.  A call that raises for the
\* configuration or for the absolute maximum has not invoked the model and
\* returns neither messages nor state.  A call with max_summary_tokens >=
\* max_tokens raises for the configuration; a call with a valid
\* configuration whose first unsummarized message alone costs
\* 2 * effective max_tokens - max_summary_tokens or more raises for the
\* absolute maximum.
C23_ErrorsPrecedeModel ==
    LET msgs == WorkingMessages(result.input)
        n    == result.prior.total_summarized_messages
        e    == EffectiveMaxTokens(result.input, result.max_tokens)
    IN  /\ result.kind \in {"BudgetExceeded", "InvalidConfiguration"} =>
              /\ result.model_calls = 0
              /\ result.response = ""
              /\ result.prompt = <<>>
              /\ result.messages = <<>>
              /\ ~result.summary_info.present
        /\ (result.kind # "none" /\ result.max_summary_tokens >= result.max_tokens)
              => result.kind = "InvalidConfiguration"
        /\ (/\ result.kind # "none"
            /\ result.max_summary_tokens < result.max_tokens
            /\ n < Len(msgs)
            /\ token_counter(<<msgs[n + 1]>>) >= 2 * e - result.max_summary_tokens)
              => result.kind = "BudgetExceeded"

\* C23 witness: a call on a single message that costs more than the absolute
\* maximum.
C23_Witness ==
    /\ result.kind = "BudgetExceeded"
    /\ Len(result.input) = 1
    /\ token_counter(result.input)
         > 2 * result.max_tokens - result.max_summary_tokens
    /\ result.counter_calls = 1

\* C24: Lost-update hazard.  A caller that stores its update while the
\* stored context is still the one it read (its read, its call of the node
\* and its write are not cut by a write of the other caller) never lowers
\* the stored total_summarized_messages and never drops a stored summary.
\* Between two callers whose steps interleave the update of one can be lost:
\* the witness below is reachable.
C24_SerializedKeepsUpdates ==
    [][ \A p \in Callers :
          (/\ calls[p].pc = "read"
           /\ calls'[p].pc = "idle"
           /\ calls[p].input.context = context) =>
              /\ ContextSummaryInfo(context').total_summarized_messages
                   >= ContextSummaryInfo(context).total_summarized_messages
              /\ ContextSummaryInfo(context).present
                   => ContextSummaryInfo(context').present ]_vars

\* C24 witness: both callers read the same stored SummaryInfo; one stored
\* its compaction, and then the other replaced it with its own, which
\* counts fewer summarized messages: the stored count went down.
C24_Witness ==
    \E p \in Callers, q \in Callers :
        /\ p # q
        /\ calls[p].pc = "idle"
        /\ calls[p].wrote
        /\ calls[q].wrote
        /\ calls[p].input.context = calls[q].input.context
        /\ calls[p].replaced # calls[p].input.context
        /\ ContextSummaryInfo(context).total_summarized_messages
             < ContextSummaryInfo(calls[p].replaced).total_summarized_messages

\* C25: The most recent message is never summarized away.  A call that
\* returns, on an input with a non-system message, returns the last input
\* message as its last message.
C25_LastMessageKept ==
    (result.kind = "ok" /\ WorkingMessages(result.input) # <<>>) =>
        /\ result.messages # <<>>
        /\ result.messages[Len(result.messages)] = result.input[Len(result.input)]

\* C26: The ValueError of the absolute maximum is not raised on a call with
\* a valid configuration whose unsummarized messages cost no more than the
\* effective max_tokens.
C26_NoBudgetErrorWithinBudget ==
    NeedsNoCompaction(result) => result.kind # "BudgetExceeded"

\* C27: Count within bounds, nothing dropped or duplicated.  After a call
\* that returns, the total_summarized_messages returned (0 without a state)
\* is at least 0 and at most the number of non-system input messages, and
\* the number of conversation messages in the output plus that total is the
\* number of non-system input messages.
C27_CountAndTail ==
    result.kind = "ok" =>
        LET msgs == WorkingMessages(result.input)
            t    == result.summary_info.total_summarized_messages
        IN  /\ 0 <= t
            /\ t <= Len(msgs)
            /\ Len(OutputTail(result)) + t = Len(msgs)
            /\ OutputTail(result) = PySlice(msgs, t, Len(msgs))

\* C27 witness: a later compaction that leaves messages in the output.
C27_Witness ==
    /\ result.kind = "ok"
    /\ result.model_calls > 0
    /\ result.prior.total_summarized_messages >= 1
    /\ Len(OutputTail(result)) >= 1

\* A call on input with the prior state and the configuration given raises
\* the ValueError of the absolute maximum: the configuration is valid and a
\* running total of the unsummarized messages reaches the absolute maximum.
Exceeds(input, prior, config) ==
    /\ config.max_summary_tokens < config.max_tokens
    /\ ReachesCeiling(WorkingMessages(input), prior.total_summarized_messages,
                      2 * (config.max_tokens - token_counter(ReservedSystem(input)))
                        - config.max_summary_tokens)

\* C28: The ValueError of the absolute maximum is absorbing.  A call that
\* raises it was made where Exceeds holds; where Exceeds holds it keeps
\* holding after every step of the caller (an append, a call), every call
\* made raises that error, and the state the caller holds stays the same.
C28_BudgetExceededAbsorbing ==
    [][ /\ result.kind = "BudgetExceeded" => Exceeds(conv, stored, cfg)
        /\ Exceeds(conv, stored, cfg) =>
              /\ Exceeds(conv', stored', cfg')
              /\ result'.kind # "none" => result'.kind = "BudgetExceeded"
              /\ stored' = stored ]_vars

\* C28 witness: a call raised the error on a conversation of which a
\* shorter one, with the same state and configuration, raises it already.
C28_Witness ==
    /\ result.kind = "BudgetExceeded"
    /\ conv = result.input
    /\ \E k \in 1..(Len(conv) - 1) : Exceeds(SubSeq(conv, 1, k), stored, cfg)

====
